---------------------------- MODULE Spec2Model ----------------------------
(***************************************************************************)
(* A model of surfnerd's forecast synthesis (NewSurfForecast,              *)
(* surfforecast.go) and of its buoy observation series (buoy.go,           *)
(* buoyitem.go).                                                           *)
(*                                                                         *)
(* Go slices are modelled as records [isNil, elems]: a nil slice and an    *)
(* empty non-nil slice are different values that both have length 0.       *)
(* Floating point quantities are modelled as small integers; only their    *)
(* order, their equality and "is it zero" matter to the code modelled.     *)
(***************************************************************************)
EXTENDS Integers, Sequences, FiniteSets, TLC

(***************************************************************************)
(* Bounds of the model.                                                    *)
(***************************************************************************)
\* longest wave / wind forecast series
MaxWave == 2
\* largest wave height of a swell component (heights are 0..MaxHeight)
MaxHeight == 2
\* longest buoy series handed to FindConditionsForDateAndTime
MaxSeries == 3
\* latest time of an observation or a query (times are 0..MaxTime)
MaxTime == 4
\* most parse calls made on one buoy
MaxCalls == 3
\* most complete lines of a standard or detailed report, headers included
MaxLines == 7
\* tokens after the last complete line of a report (none, or this many)
MaxExtra == 1
\* largest dataCountLimit (limits are -1..MaxLimit)
MaxLimit == 4
\* largest value a latest report prints (values are 1..MaxValue)
MaxValue == 2

(***************************************************************************)
(* Go slices.                                                              *)
(***************************************************************************)
NilSlice == [isNil |-> TRUE, elems |-> <<>>]

Slice(s) == [isNil |-> FALSE, elems |-> s]

len(sl) == Len(sl.elems)

\* all sequences over S of length at most n
SeqUpTo(S, n) == UNION {[1..k -> S] : k \in 0..n}

\* all slices over S of length at most n, the nil slice included
SlicesUpTo(S, n) == {NilSlice} \cup {Slice(s) : s \in SeqUpTo(S, n)}

(***************************************************************************)
(* The forecast synthesis: NewSurfForecast.                                *)
(***************************************************************************)
VARIABLES
    waveForecast,   \* *WaveForecast argument: [Units, ForecastData]
    windForecast,   \* *WindForecast argument: [Units, ForecastData]
    surfForecast,   \* the SurfForecast under construction: [Units, ForecastData]
    noWindData,     \* the local of that name
    idx,            \* the loop index i of the range loop (0-based)
    pc,             \* "start", "loop", "returned", "panic"
    ret             \* what the call returned: "none", "nil", "forecast"

forecastVars == <<waveForecast, windForecast, surfForecast, noWindData, idx, pc, ret>>

UnitSystems == {"Metric", "English"}

\* UnitSystem conversion of one length or speed to Metric. The conversion
\* tables are not part of the sources modelled; the spec describes the
\* conversion as a component-wise linear transform, and it is the identity
\* when the units already are Metric.
ToMetric(units, v) == IF units = "Metric" THEN v ELSE 2 * v

\* WaveForecast.ChangeUnits(Metric), in place
WaveChangeUnits(wf) ==
    [Units |-> "Metric",
     ForecastData |->
        [wf.ForecastData EXCEPT !.elems =
            [k \in DOMAIN wf.ForecastData.elems |->
                LET r == wf.ForecastData.elems[k] IN
                [r EXCEPT
                    !.SurfaceWindSpeed = ToMetric(wf.Units, @),
                    !.PrimarySwellWaveHeight = ToMetric(wf.Units, @),
                    !.SecondarySwellWaveHeight = ToMetric(wf.Units, @),
                    !.WindSwellWaveHeight = ToMetric(wf.Units, @)]]]]

\* WindForecast.ChangeUnits(Metric), in place
WindChangeUnits(wf) ==
    [Units |-> "Metric",
     ForecastData |->
        [wf.ForecastData EXCEPT !.elems =
            [k \in DOMAIN wf.ForecastData.elems |->
                LET r == wf.ForecastData.elems[k] IN
                [r EXCEPT
                    !.WindSpeed = ToMetric(wf.Units, @),
                    !.WindGustSpeed = ToMetric(wf.Units, @)]]]]

\* Swell.BreakingWaveHeights(beachAngle, elevation, beachSlope): (min, max).
\* The shoaling/refraction formula is not part of the sources modelled; for
\* one beach geometry the range is a function of the component, here of its
\* wave height: zero for a zero height, min <= max.
BreakingWaveHeights(swell) == <<swell.WaveHeight \div 2, swell.WaveHeight>>

\* A Swell value. Component stands for the Period, Direction and
\* CompassDirection copied from one group of fields of the wave record: it
\* keeps two components with equal heights distinguishable.
Swell(component, height) == [Component |-> component, WaveHeight |-> height]

\* SurfForecastItem{}: the zero value
ZeroSwell == [Component |-> "", WaveHeight |-> 0]

ZeroForecastItem ==
    [Date |-> 0, WindSpeed |-> 0, WindGustSpeed |-> 0, WindDirection |-> 0,
     PrimarySwellComponent |-> ZeroSwell,
     SecondarySwellComponent |-> ZeroSwell,
     TertiarySwellComponent |-> ZeroSwell,
     MinimumBreakingHeight |-> 0, MaximumBreakingHeight |-> 0]

\* WindFields with the fallback gust left at the zero value instead of -1
WindFieldsZeroGust(item, waveRec, wind, k, noWind) ==
    IF ~noWind
    THEN [item EXCEPT
            !.WindSpeed = wind.elems[k].WindSpeed,
            !.WindGustSpeed = wind.elems[k].WindGustSpeed,
            !.WindDirection = wind.elems[k].WindDirection]
    ELSE [item EXCEPT
            !.WindSpeed = waveRec.SurfaceWindSpeed,
            !.WindDirection = waveRec.SurfaceWindDirection]

\* lines 97-107: the wind fields of item i (1-based here). Reading
\* windForecast.ForecastData[i] past its end is a runtime panic, decided by
\* WindIndexPanics before this is used.
WindFields(item, waveRec, wind, k, noWind) ==
    IF ~noWind
    THEN [item EXCEPT
            !.WindSpeed = wind.elems[k].WindSpeed,
            !.WindGustSpeed = wind.elems[k].WindGustSpeed,
            !.WindDirection = wind.elems[k].WindDirection]
    ELSE [item EXCEPT
            !.WindSpeed = waveRec.SurfaceWindSpeed,
            !.WindGustSpeed = -1,
            !.WindDirection = waveRec.SurfaceWindDirection]

\* lines 97-98: the index expression windForecast.ForecastData[i] is out of range
WindIndexPanics(wind, k, noWind) == ~noWind /\ k > len(wind)

\* The roles of a ranked item
SetRoles(item, p, s, t) ==
    LET range == BreakingWaveHeights(p)
    IN  [item EXCEPT
            !.PrimarySwellComponent = p,
            !.MinimumBreakingHeight = range[1],
            !.MaximumBreakingHeight = range[2],
            !.SecondarySwellComponent = s,
            !.TertiarySwellComponent = t]

\* RankSwells with >= in place of > in every comparison: equal maxima keep
\* the earlier-declared component ahead
RankSwellsEarlierFirst(item, swellOne, swellTwo, swellThree) ==
    LET swellOneMax == BreakingWaveHeights(swellOne)[2]
        swellTwoMax == BreakingWaveHeights(swellTwo)[2]
        swellThreeMax == BreakingWaveHeights(swellThree)[2]
    IN  IF swellOneMax >= swellTwoMax
        THEN IF swellOneMax >= swellThreeMax
             THEN IF swellTwoMax >= swellThreeMax
                  THEN SetRoles(item, swellOne, swellTwo, swellThree)
                  ELSE SetRoles(item, swellOne, swellThree, swellTwo)
             ELSE SetRoles(item, swellThree, swellOne, swellTwo)
        ELSE IF swellTwoMax >= swellThreeMax
             THEN IF swellOneMax >= swellThreeMax
                  THEN SetRoles(item, swellTwo, swellOne, swellThree)
                  ELSE SetRoles(item, swellTwo, swellThree, swellOne)
             ELSE SetRoles(item, swellThree, swellTwo, swellOne)

\* RankSwells with the roles of the branch of lines 144-149 mixed up: swell
\* two is made secondary without being compared with swell one
RankSwellsUnordered(item, swellOne, swellTwo, swellThree) ==
    LET swellOneMax == BreakingWaveHeights(swellOne)[2]
        swellTwoMax == BreakingWaveHeights(swellTwo)[2]
        swellThreeMax == BreakingWaveHeights(swellThree)[2]
    IN  IF swellOneMax > swellTwoMax
        THEN IF swellOneMax > swellThreeMax
             THEN IF swellTwoMax > swellThreeMax
                  THEN SetRoles(item, swellOne, swellTwo, swellThree)
                  ELSE SetRoles(item, swellOne, swellThree, swellTwo)
             ELSE SetRoles(item, swellThree, swellTwo, swellOne)
        ELSE IF swellTwoMax > swellThreeMax
             THEN IF swellOneMax > swellThreeMax
                  THEN SetRoles(item, swellTwo, swellOne, swellThree)
                  ELSE SetRoles(item, swellTwo, swellThree, swellOne)
             ELSE SetRoles(item, swellThree, swellTwo, swellOne)

\* lines 130-169: put the swells in order and set the breaking wave height
RankSwells(item, swellOne, swellTwo, swellThree) ==
    LET one == BreakingWaveHeights(swellOne)
        two == BreakingWaveHeights(swellTwo)
        three == BreakingWaveHeights(swellThree)
        swellOneMin == one[1]
        swellOneMax == one[2]
        swellTwoMin == two[1]
        swellTwoMax == two[2]
        swellThreeMin == three[1]
        swellThreeMax == three[2]
        Set(p, pmin, pmax, s, t) ==
            [item EXCEPT
                !.PrimarySwellComponent = p,
                !.MinimumBreakingHeight = pmin,
                !.MaximumBreakingHeight = pmax,
                !.SecondarySwellComponent = s,
                !.TertiarySwellComponent = t]
    IN  IF swellOneMax > swellTwoMax
        THEN IF swellOneMax > swellThreeMax
             THEN IF swellTwoMax > swellThreeMax
                  THEN Set(swellOne, swellOneMin, swellOneMax, swellTwo, swellThree)
                  ELSE Set(swellOne, swellOneMin, swellOneMax, swellThree, swellTwo)
             ELSE Set(swellThree, swellThreeMin, swellThreeMax, swellOne, swellTwo)
        ELSE IF swellTwoMax > swellThreeMax
             THEN IF swellOneMax > swellThreeMax
                  THEN Set(swellTwo, swellTwoMin, swellTwoMax, swellOne, swellThree)
                  ELSE Set(swellTwo, swellTwoMin, swellTwoMax, swellThree, swellOne)
             ELSE Set(swellThree, swellThreeMin, swellThreeMax, swellTwo, swellOne)

\* lines 109-128: the three components built from the wave record
SwellOne(waveRec) == Swell("PrimarySwell", waveRec.PrimarySwellWaveHeight)

SwellTwo(waveRec) == Swell("SecondarySwell", waveRec.SecondarySwellWaveHeight)

SwellThree(waveRec) == Swell("WindSwell", waveRec.WindSwellWaveHeight)

\* lines 93-169: the forecast item of one iteration (k is i + 1)
BuildForecastItem(wave, wind, k, noWind) ==
    LET waveRec == wave.elems[k]
        dated == [ZeroForecastItem EXCEPT !.Date = waveRec.Date]
        winded == WindFields(dated, waveRec, wind, k, noWind)
    IN  RankSwells(winded, SwellOne(waveRec), SwellTwo(waveRec), SwellThree(waveRec))

\* lines 84-89
NoWindData(wind) ==
    IF wind.isNil THEN TRUE
    ELSE IF len(wind) < 1 THEN TRUE
    ELSE FALSE

\* lines 53-89: everything before the loop
Begin ==
    /\ pc = "start"
    /\ LET wave == IF waveForecast.Units # "Metric"
                   THEN WaveChangeUnits(waveForecast) ELSE waveForecast
           wind == IF windForecast.Units # "Metric"
                   THEN WindChangeUnits(windForecast) ELSE windForecast
       IN  /\ waveForecast' = wave
           /\ windForecast' = wind
           /\ surfForecast' =
                [Units |-> "Metric",
                 ForecastData |->
                    Slice([k \in 1..len(wave.ForecastData) |-> ZeroForecastItem])]
           /\ IF wave.ForecastData.isNil \/ len(wave.ForecastData) < 1
              THEN /\ pc' = "returned"
                   /\ ret' = "nil"
                   /\ noWindData' = noWindData
              ELSE /\ pc' = "loop"
                   /\ ret' = ret
                   /\ noWindData' = NoWindData(wind.ForecastData)
    /\ UNCHANGED idx

\* lines 92-173: one iteration of the loop that completes
LoopStep ==
    /\ pc = "loop"
    /\ idx < len(waveForecast.ForecastData)
    /\ ~WindIndexPanics(windForecast.ForecastData, idx + 1, noWindData)
    /\ surfForecast' =
        [surfForecast EXCEPT !.ForecastData.elems[idx + 1] =
            BuildForecastItem(waveForecast.ForecastData,
                              windForecast.ForecastData, idx + 1, noWindData)]
    /\ idx' = idx + 1
    /\ UNCHANGED <<waveForecast, windForecast, noWindData, pc, ret>>

\* lines 97-98: the iteration whose wind record does not exist panics
LoopPanic ==
    /\ pc = "loop"
    /\ idx < len(waveForecast.ForecastData)
    /\ WindIndexPanics(windForecast.ForecastData, idx + 1, noWindData)
    /\ pc' = "panic"
    /\ UNCHANGED <<waveForecast, windForecast, surfForecast, noWindData, idx, ret>>

\* line 174
Return ==
    /\ pc = "loop"
    /\ idx >= len(waveForecast.ForecastData)
    /\ pc' = "returned"
    /\ ret' = "forecast"
    /\ UNCHANGED <<waveForecast, windForecast, surfForecast, noWindData, idx>>

(***************************************************************************)
(* The buoy observation series: Buoy.BuoyData and the operations on it.    *)
(*                                                                         *)
(* A BuoyItem is modelled by one field of every group of fields that the   *)
(* parsers and merges treat alike:                                         *)
(*   Time                   set by no parser, copied by MergeLatest        *)
(*   Date                   set by all three parsers                       *)
(*   WindSpeed              also WindDirection, WindGust                   *)
(*   SignificantWaveHeight                                                 *)
(*   DominantWavePeriod     the guard of the detailed parser               *)
(*   AveragePeriod          also MeanWaveDirection                         *)
(*   SwellWaveHeight        also WindSwellWaveHeight                       *)
(*   SwellWavePeriod, WindSwellWavePeriod                                  *)
(*                          also SwellWaveDirection, WindSwellDirection    *)
(*   Steepness              the guard of the standard parser               *)
(*   Pressure               also the three temperatures                    *)
(*   Visibility             also PressureTendency, WaterLevel              *)
(* A number is 0 when the field is unset or its text did not parse         *)
(* (strconv.ParseFloat's result is kept, its error dropped); a date is 0   *)
(* when it is the zero time.Time.                                          *)
(***************************************************************************)
VARIABLES
    BuoyData,   \* Buoy.BuoyData, a slice of BuoyItem
    call,       \* the last parse call made on the buoy: its arguments, what
                \* it found and what it returned
    calls,      \* how many calls were made
    found       \* the last FindConditionsForDateAndTime call, with what it returned

buoyVars == <<BuoyData, call, calls, found>>

vars == <<forecastVars, buoyVars>>

\* BuoyItem{}: the zero value
ZeroBuoyItem ==
    [Time |-> "", Date |-> 0, WindSpeed |-> 0, SignificantWaveHeight |-> 0,
     DominantWavePeriod |-> 0, AveragePeriod |-> 0, SwellWaveHeight |-> 0,
     SwellWavePeriod |-> 0, WindSwellWavePeriod |-> 0, Steepness |-> "",
     Pressure |-> 0, Visibility |-> 0]

\* make([]BuoyItem, n)
MakeBuoyItems(n) == Slice([k \in 1..n |-> ZeroBuoyItem])

\* no parse call was made yet
NoCall ==
    [op |-> "none", result |-> "ok", parsed |-> 0, text |-> <<>>, available |-> 0,
     limit |-> 0, empty |-> TRUE,
     previous |-> [op |-> "none", result |-> "ok", text |-> <<>>, empty |-> TRUE]]

\* the record of a parse call made in the current state: the operation, how
\* it ended ("ok", "error", "panic"), the records its loop parsed, the text
\* of a latest report, the data lines the raw report holds after its header
\* lines, dataCountLimit, whether BuoyData was nil or empty when the call
\* began, and the same of the call before
Called(op, result, parsed, text, available, limit) ==
    [op |-> op, result |-> result, parsed |-> parsed, text |-> text,
     available |-> available, limit |-> limit,
     empty |-> BuoyData.isNil \/ len(BuoyData) = 0,
     previous |-> [op |-> call.op, result |-> call.result, text |-> call.text,
                   empty |-> call.empty]]

\* BuoyItem.InterpolateDominantWaveDirection: it derives DominantWaveDirection,
\* a field the model does not carry, and leaves the fields modelled alone.
InterpolateDominantWaveDirection(item) == item

\* buoyitem.go:38-51
MergeLatestBuoyReading(b, newBuoyData) ==
    [b EXCEPT
        !.Time = newBuoyData.Time,
        !.WindSpeed = newBuoyData.WindSpeed,
        !.SignificantWaveHeight = newBuoyData.SignificantWaveHeight,
        !.DominantWavePeriod = newBuoyData.DominantWavePeriod,
        !.AveragePeriod = newBuoyData.AveragePeriod,
        !.Pressure = newBuoyData.Pressure]

\* BuoyItem.MergeStandardDataReading, which the sources modelled call but do
\* not hold: after the spec (4.3), it replaces the fields the standard
\* report carries and leaves the others alone. Like MergeLatestBuoyReading
\* it keeps the Date of the slot.
MergeStandardDataReading(b, newBuoyData) ==
    [b EXCEPT
        !.WindSpeed = newBuoyData.WindSpeed,
        !.SignificantWaveHeight = newBuoyData.SignificantWaveHeight,
        !.DominantWavePeriod = newBuoyData.DominantWavePeriod,
        !.AveragePeriod = newBuoyData.AveragePeriod,
        !.Pressure = newBuoyData.Pressure,
        !.Visibility = newBuoyData.Visibility]

\* BuoyItem.MergeDetailedWaveDataReading, likewise for the detailed report
MergeDetailedWaveDataReading(b, newBuoyData) ==
    [b EXCEPT
        !.SignificantWaveHeight = newBuoyData.SignificantWaveHeight,
        !.SwellWaveHeight = newBuoyData.SwellWaveHeight,
        !.SwellWavePeriod = newBuoyData.SwellWavePeriod,
        !.WindSwellWavePeriod = newBuoyData.WindSwellWavePeriod,
        !.Steepness = newBuoyData.Steepness,
        !.AveragePeriod = newBuoyData.AveragePeriod]

(***************************************************************************)
(* ParseRawLatestBuoyData. The raw text is modelled as its lines, a line   *)
(* as [colon, key, value]: whether it holds a ":", the text before it and  *)
(* the number the first word after it parses to (a date for the time       *)
(* line).                                                                  *)
(***************************************************************************)
\* buoy.go:132-175: the loop over the lines from index 5 on (here the 6th);
\* at, the line to read next; read, swellPeriodRead
RECURSIVE LatestLines(_, _, _, _)
LatestLines(lines, at, item, read) ==
    IF at > Len(lines) THEN item
    ELSE LET ln == lines[at] IN
         IF ~ln.colon THEN LatestLines(lines, at + 1, item, read)
         ELSE IF ln.key = "Seas"
         THEN LatestLines(lines, at + 1,
                          [item EXCEPT !.SignificantWaveHeight = ln.value], read)
         ELSE IF ln.key = "Peak Period"
         THEN LatestLines(lines, at + 1,
                          [item EXCEPT !.DominantWavePeriod = ln.value], read)
         ELSE IF ln.key = "Pres"
         THEN LatestLines(lines, at + 1, [item EXCEPT !.Pressure = ln.value], read)
         ELSE IF ln.key = "Swell"
         THEN LatestLines(lines, at + 1,
                          [item EXCEPT !.SwellWaveHeight = ln.value], read)
         ELSE IF ln.key = "Period"
         THEN IF ~read
              THEN LatestLines(lines, at + 1,
                               [item EXCEPT !.SwellWavePeriod = ln.value], TRUE)
              ELSE LatestLines(lines, at + 1,
                               [item EXCEPT !.WindSwellWavePeriod = ln.value], read)
         ELSE LatestLines(lines, at + 1, item, read)

\* buoy.go:123-177: the item parsed from a text of six lines or more
LatestItem(lines) ==
    InterpolateDominantWaveDirection(
        LatestLines(lines, 6, [ZeroBuoyItem EXCEPT !.Date = lines[5].value], FALSE))

\* StoreLatest appending the item to a series that holds items already
StoreLatestAppending(data, buoyDataItem) ==
    IF data.isNil THEN Slice(<<buoyDataItem>>)
    ELSE [data EXCEPT !.elems = Append(@, buoyDataItem)]

\* buoy.go:179-187
StoreLatest(data, buoyDataItem) ==
    IF data.isNil THEN Slice(<<buoyDataItem>>)
    ELSE IF len(data) = 0 THEN Slice(<<buoyDataItem>>)
    ELSE [data EXCEPT !.elems[1] = MergeLatestBuoyReading(@, buoyDataItem)]

\* buoy.go:117-190
ParseRawLatestBuoyData(lines) ==
    /\ call.result # "panic"
    /\ calls' = calls + 1
    /\ IF Len(lines) < 6
       THEN /\ call' = Called("latest", "error", 0, lines, 0, 0)
            /\ UNCHANGED BuoyData
       ELSE /\ BuoyData' = StoreLatest(BuoyData, LatestItem(lines))
            /\ call' = Called("latest", "ok", 1, lines, 0, 0)
    /\ UNCHANGED found

(***************************************************************************)
(* ParseRawStandardData and ParseRawDetailedWaveData. The raw tokens are   *)
(* modelled as [lines, extra]: the complete lines of dataLineLength tokens *)
(* each, a line as the record of what its tokens parse to, and the number  *)
(* of tokens left over after the last complete line.                       *)
(***************************************************************************)
\* buoy.go:193 and 246: dataLineLength
StandardLineLength == 19

DetailedLineLength == 15

\* buoy.go:194 and 247
headerLines == 2

\* len(rawData)
TokenCount(rawData, dataLineLength) == Len(rawData.lines) * dataLineLength + rawData.extra

\* the data lines of a raw report: its complete lines after the header lines
Available(rawData) ==
    IF Len(rawData.lines) > headerLines THEN Len(rawData.lines) - headerLines ELSE 0

\* buoy.go:195-198 and 248-251
DataLineCount(rawData, dataLineLength, dataCountLimit) ==
    LET dataLineCount == (TokenCount(rawData, dataLineLength) \div dataLineLength) - headerLines
    IN  IF dataCountLimit < dataLineCount /\ dataCountLimit >= 0
        THEN dataCountLimit ELSE dataLineCount

\* buoy.go:200-204 and 253-257: make([]BuoyItem, dataLineCount) panics when
\* dataLineCount is negative
MakePanics(data, dataLineCount) ==
    (data.isNil \/ len(data) = 0) /\ dataLineCount < 0

\* buoy.go:200-204 and 253-257
Allocate(data, dataLineCount) ==
    IF data.isNil THEN MakeBuoyItems(dataLineCount)
    ELSE IF len(data) = 0 THEN MakeBuoyItems(dataLineCount)
    ELSE data

\* buoy.go:212-229: the item of one line of the standard report
StandardItem(ln) ==
    [ZeroBuoyItem EXCEPT
        !.Date = ln.Date,
        !.WindSpeed = ln.WindSpeed,
        !.SignificantWaveHeight = ln.SignificantWaveHeight,
        !.DominantWavePeriod = ln.DominantWavePeriod,
        !.AveragePeriod = ln.AveragePeriod,
        !.Pressure = ln.Pressure,
        !.Visibility = ln.Visibility]

\* buoy.go:266-279: the item of one line of the detailed report
DetailedItem(ln) ==
    InterpolateDominantWaveDirection(
        [ZeroBuoyItem EXCEPT
            !.Date = ln.Date,
            !.SignificantWaveHeight = ln.SignificantWaveHeight,
            !.SwellWaveHeight = ln.SwellWaveHeight,
            !.SwellWavePeriod = ln.SwellWavePeriod,
            !.WindSwellWavePeriod = ln.WindSwellWavePeriod,
            !.Steepness = ln.Steepness,
            !.AveragePeriod = ln.AveragePeriod])

\* buoy.go:231-237; itemIndex is 0-based as in the code
StoreStandard(data, itemIndex, newBuoyData) ==
    IF len(data) <= itemIndex
    THEN [data EXCEPT !.elems = Append(@, newBuoyData)]
    ELSE IF Len(data.elems[itemIndex + 1].Steepness) > 0
    THEN [data EXCEPT !.elems[itemIndex + 1] = MergeStandardDataReading(@, newBuoyData)]
    ELSE [data EXCEPT !.elems[itemIndex + 1] = newBuoyData]

\* buoy.go:281-287
StoreDetailed(data, itemIndex, newBuoyData) ==
    IF len(data) <= itemIndex
    THEN [data EXCEPT !.elems = Append(@, newBuoyData)]
    ELSE IF data.elems[itemIndex + 1].DominantWavePeriod > 0
    THEN [data EXCEPT !.elems[itemIndex + 1] = MergeDetailedWaveDataReading(@, newBuoyData)]
    ELSE [data EXCEPT !.elems[itemIndex + 1] = newBuoyData]

\* buoy.go:206-240: the loop, from the 0-based line on; it returns the series
\* and the number of records parsed
RECURSIVE StandardLoop(_, _, _, _, _)
StandardLoop(data, rawData, line, itemIndex, dataLineCount) ==
    IF line >= dataLineCount THEN <<data, itemIndex>>
    ELSE IF line * StandardLineLength > TokenCount(rawData, StandardLineLength)
    THEN <<data, itemIndex>>
    ELSE StandardLoop(StoreStandard(data, itemIndex, StandardItem(rawData.lines[line + 1])),
                      rawData, line + 1, itemIndex + 1, dataLineCount)

\* buoy.go:259-290
RECURSIVE DetailedLoop(_, _, _, _, _)
DetailedLoop(data, rawData, line, itemIndex, dataLineCount) ==
    IF line >= dataLineCount THEN <<data, itemIndex>>
    ELSE IF line * DetailedLineLength > TokenCount(rawData, DetailedLineLength)
    THEN <<data, itemIndex>>
    ELSE DetailedLoop(StoreDetailed(data, itemIndex, DetailedItem(rawData.lines[line + 1])),
                      rawData, line + 1, itemIndex + 1, dataLineCount)

\* buoy.go:192-243
ParseRawStandardData(rawData, dataCountLimit) ==
    /\ call.result # "panic"
    /\ calls' = calls + 1
    /\ LET dataLineCount == DataLineCount(rawData, StandardLineLength, dataCountLimit)
       IN  IF MakePanics(BuoyData, dataLineCount)
           THEN /\ call' = Called("standard", "panic", 0, <<>>, Available(rawData), dataCountLimit)
                /\ UNCHANGED BuoyData
           ELSE LET done == StandardLoop(Allocate(BuoyData, dataLineCount), rawData,
                                         headerLines, 0, dataLineCount)
                IN  /\ BuoyData' = done[1]
                    /\ call' = Called("standard", "ok", done[2], <<>>,
                                        Available(rawData), dataCountLimit)
    /\ UNCHANGED found

\* buoy.go:245-293
ParseRawDetailedWaveData(rawData, dataCountLimit) ==
    /\ call.result # "panic"
    /\ calls' = calls + 1
    /\ LET dataLineCount == DataLineCount(rawData, DetailedLineLength, dataCountLimit)
       IN  IF MakePanics(BuoyData, dataLineCount)
           THEN /\ call' = Called("detailed", "panic", 0, <<>>, Available(rawData), dataCountLimit)
                /\ UNCHANGED BuoyData
           ELSE LET done == DetailedLoop(Allocate(BuoyData, dataLineCount), rawData,
                                         headerLines, 0, dataLineCount)
                IN  /\ BuoyData' = done[1]
                    /\ call' = Called("detailed", "ok", done[2], <<>>,
                                        Available(rawData), dataCountLimit)
    /\ UNCHANGED found

(***************************************************************************)
(* FindConditionsForDateAndTime. A time.Time is modelled as a count of     *)
(* nanoseconds and a time.Duration as a difference of two; the failure     *)
(* value -1 of the code is the Duration of -1 nanosecond.                  *)
(***************************************************************************)
\* Sub with its operands exchanged
SubReversed(t, u) == u - t

\* buoy.go:349 and 352: date.Sub(item.Date)
Sub(t, u) == t - u

\* buoy.go:353: math.Abs(d.Seconds())
Abs(d) == IF d < 0 THEN -d ELSE d

\* the loop of FindLoop comparing the signed durations
RECURSIVE FindLoopSigned(_, _, _, _, _)
FindLoopSigned(data, date, index, minBuoy, minDuration) ==
    IF index >= len(data) THEN <<minBuoy, minDuration>>
    ELSE LET newDuration == Sub(date, data.elems[index + 1].Date) IN
         IF newDuration < minDuration
         THEN FindLoopSigned(data, date, index + 1, data.elems[index + 1], newDuration)
         ELSE FindLoopSigned(data, date, index + 1, minBuoy, minDuration)

\* buoy.go:351-357; index is 0-based as in the code
RECURSIVE FindLoop(_, _, _, _, _)
FindLoop(data, date, index, minBuoy, minDuration) ==
    IF index >= len(data) THEN <<minBuoy, minDuration>>
    ELSE LET newDuration == Sub(date, data.elems[index + 1].Date) IN
         IF Abs(newDuration) < Abs(minDuration)
         THEN FindLoop(data, date, index + 1, data.elems[index + 1], newDuration)
         ELSE FindLoop(data, date, index + 1, minBuoy, minDuration)

\* buoy.go:341-360: the (BuoyItem, Duration) returned
FindResult(data, date) ==
    IF data.isNil THEN <<ZeroBuoyItem, -1>>
    ELSE IF len(data) < 1 THEN <<ZeroBuoyItem, -1>>
    ELSE FindLoop(data, date, 1, data.elems[1], Sub(date, data.elems[1].Date))

NoFind == [called |-> FALSE, date |-> 0, item |-> ZeroBuoyItem, duration |-> 0]

\* buoy.go:341-360
FindConditionsForDateAndTime(date) ==
    /\ LET r == FindResult(BuoyData, date)
       IN  found' = [called |-> TRUE, date |-> date, item |-> r[1], duration |-> r[2]]
    /\ UNCHANGED <<BuoyData, call, calls>>

(***************************************************************************)
(* Inputs of NewSurfForecast.                                              *)
(***************************************************************************)
Heights == 0..MaxHeight

\* surface wind (speed, direction) estimates a wave record may carry
SurfaceWinds == {<<5, 190>>, <<7, 10>>}

\* wind model records
WindRecords ==
    {[WindSpeed |-> 3, WindGustSpeed |-> 4, WindDirection |-> 90],
     [WindSpeed |-> 6, WindGustSpeed |-> 0, WindDirection |-> 270]}

WaveRecord(date, sw, h1, h2, h3) ==
    [Date |-> date, SurfaceWindSpeed |-> sw[1], SurfaceWindDirection |-> sw[2],
     PrimarySwellWaveHeight |-> h1, SecondarySwellWaveHeight |-> h2,
     WindSwellWaveHeight |-> h3]

\* the height combinations the series-level inputs use
SampleHeights == {<<MaxHeight, 1, 0>>, <<1, 1, 1>>}

\* wave records of the sample height combinations, for every surface wind
SampleRecords ==
    {WaveRecord(0, sw, h[1], h[2], h[3]) : sw \in SurfaceWinds, h \in SampleHeights}

\* wave records of every height combination, for one surface wind
AllHeightRecords ==
    {WaveRecord(0, <<5, 190>>, h1, h2, h3) : h1 \in Heights, h2 \in Heights, h3 \in Heights}

\* a series stamps its records with their position as the date
Dated(s) == [k \in DOMAIN s |-> [s[k] EXCEPT !.Date = k]]

ForecastStart ==
    /\ surfForecast = [Units |-> "Metric", ForecastData |-> NilSlice]
    /\ noWindData = FALSE
    /\ idx = 0
    /\ pc = "start"
    /\ ret = "none"

\* no call of NewSurfForecast is under way
ForecastIdle ==
    /\ waveForecast = [Units |-> "Metric", ForecastData |-> NilSlice]
    /\ windForecast = [Units |-> "Metric", ForecastData |-> NilSlice]
    /\ ForecastStart

\* a buoy as GetBuoyByID hands it out: no observation yet
BuoyStart ==
    /\ BuoyData = NilSlice
    /\ call = NoCall
    /\ calls = 0
    /\ found = NoFind

\* series-level inputs: any wind series against any wave series
InitForecast ==
    /\ \E u \in UnitSystems, wd \in SlicesUpTo(SampleRecords, MaxWave) :
        waveForecast = [Units |-> u,
                        ForecastData |-> [wd EXCEPT !.elems = Dated(@)]]
    /\ \E u \in UnitSystems, wd \in SlicesUpTo(WindRecords, MaxWave + 1) :
        windForecast = [Units |-> u, ForecastData |-> wd]
    /\ ForecastStart
    /\ BuoyStart

\* ranking inputs: a wave series of any length in which one time step, at any
\* position, carries any combination of heights (an iteration reads only its
\* own record); the wind series is nil or holds one record
InitRank ==
    /\ \E u \in UnitSystems, n \in 1..MaxWave :
       \E p \in 1..n, free \in AllHeightRecords, rest \in [1..n -> SampleRecords] :
        waveForecast = [Units |-> u,
                        ForecastData |->
                            Slice(Dated([k \in 1..n |-> IF k = p THEN free ELSE rest[k]]))]
    /\ \E wd \in SlicesUpTo(WindRecords, 1) :
        windForecast = [Units |-> "Metric", ForecastData |-> wd]
    /\ ForecastStart
    /\ BuoyStart

NextForecast ==
    \/ Begin /\ UNCHANGED buoyVars
    \/ LoopStep /\ UNCHANGED buoyVars
    \/ LoopPanic /\ UNCHANGED buoyVars
    \/ Return /\ UNCHANGED buoyVars

SpecForecast == InitForecast /\ [][NextForecast]_vars

SpecRank == InitRank /\ [][NextForecast]_vars

(***************************************************************************)
(* Inputs of FindConditionsForDateAndTime: any series of dated items, any  *)
(* query time.                                                             *)
(***************************************************************************)
Times == 0..MaxTime

\* the series whose k-th item carries the k-th date; the wind speed tells
\* two items of one date apart
DatedSeries(dates) ==
    [k \in DOMAIN dates |-> [ZeroBuoyItem EXCEPT !.Date = dates[k], !.WindSpeed = k]]

InitFind ==
    /\ \E dates \in SlicesUpTo(Times, MaxSeries) :
        BuoyData = [dates EXCEPT !.elems = DatedSeries(@)]
    /\ call = NoCall
    /\ calls = 0
    /\ found = NoFind
    /\ ForecastIdle

NextFind ==
    \E date \in Times : FindConditionsForDateAndTime(date) /\ UNCHANGED forecastVars

SpecFind == InitFind /\ [][NextFind]_vars

(***************************************************************************)
(* Inputs of the parse operations.                                         *)
(***************************************************************************)
\* a line of the standard report: its date, the value of the fields that
\* parse, and its dominant wave period (0 when the report prints MM)
StandardLine(date, v, dpd) ==
    [Date |-> date, WindSpeed |-> v, SignificantWaveHeight |-> v,
     DominantWavePeriod |-> dpd, AveragePeriod |-> v, Pressure |-> v,
     Visibility |-> v]

\* the k-th line of a standard report whose values are v: a report of the
\* values 2 prints no dominant wave period
StandardLineAt(k, v) == StandardLine(k, v, IF v = 2 THEN 0 ELSE v)

\* the two header lines hold column names and units: nothing parses
StandardHeader == StandardLine(0, 0, 0)

DetailedLine(date, v, steepness) ==
    [Date |-> date, SignificantWaveHeight |-> v, SwellWaveHeight |-> v,
     SwellWavePeriod |-> v, WindSwellWavePeriod |-> v, Steepness |-> steepness,
     AveragePeriod |-> v]

DetailedLineAt(k, v) == DetailedLine(k, v, IF v = 2 THEN "AVERAGE" ELSE "STEEP")

DetailedHeader == DetailedLine(0, 0, "STEEPNESS")

\* the values of the lines of a report, repeated down the report: all 1,
\* all 2, or 1 and 2 in turn
ValuePatterns == {<<1>>, <<2>>, <<1, 2>>}

\* the k-th line of a report of the shape
LineAt(shape, k, v) ==
    IF shape = "standard" THEN StandardLineAt(k, v) ELSE DetailedLineAt(k, v)

HeaderOf(shape) == IF shape = "standard" THEN StandardHeader ELSE DetailedHeader

\* the raw reports of a shape: n complete lines (headers first) and
\* left-over tokens
RawReports(shape) ==
    {[lines |-> [k \in 1..n |->
                    IF k <= headerLines THEN HeaderOf(shape)
                    ELSE LineAt(shape, k, pattern[(k % Len(pattern)) + 1])],
      extra |-> extra] :
        n \in 0..MaxLines, pattern \in ValuePatterns, extra \in {0, MaxExtra}}

Limits == -1..MaxLimit

KeyLine(key, value) == [colon |-> TRUE, key |-> key, value |-> value]

PlainLine == [colon |-> FALSE, key |-> "", value |-> 0]

\* the four lines before the time line, and the time line
LatestHead(date) ==
    <<PlainLine, PlainLine, PlainLine, PlainLine,
      [colon |-> TRUE, key |-> "", value |-> date]>>

\* the texts of the latest report: a complete one, one with few lines, and
\* two that are cut short
LatestTexts ==
    {LatestHead(1) \o <<KeyLine("Wind", 1), KeyLine("Seas", 1), KeyLine("Peak Period", 1),
                        KeyLine("Pres", 1), KeyLine("Swell", 1), KeyLine("Period", 1),
                        KeyLine("Period", 2)>>,
     LatestHead(2) \o <<KeyLine("Seas", 2), PlainLine>>,
     LatestHead(2),
     <<PlainLine>>}

InitBuoy == BuoyStart /\ ForecastIdle

NextBuoy ==
    \/ /\ calls < MaxCalls
       /\ \E lines \in LatestTexts : ParseRawLatestBuoyData(lines)
       /\ UNCHANGED forecastVars
    \/ /\ calls < MaxCalls
       /\ \E rawData \in RawReports("standard"), limit \in Limits :
            ParseRawStandardData(rawData, limit)
       /\ UNCHANGED forecastVars
    \/ /\ calls < MaxCalls
       /\ \E rawData \in RawReports("detailed"), limit \in Limits :
            ParseRawDetailedWaveData(rawData, limit)
       /\ UNCHANGED forecastVars

SpecBuoy == InitBuoy /\ [][NextBuoy]_vars

\* the complete latest report whose values are v: the second Period line is
\* the wind wave's
LatestReport(v) ==
    LatestHead(v) \o <<KeyLine("Wind", v), KeyLine("Seas", v), KeyLine("Peak Period", v),
                        KeyLine("Pres", v), KeyLine("Swell", v), KeyLine("Period", v),
                        KeyLine("Period", v + 1)>>

\* the latest reports, complete or cut short after any line
LatestReports ==
    UNION {{SubSeq(LatestReport(v), 1, n) : n \in 1..Len(LatestReport(v))} :
           v \in 1..MaxValue}

\* a buoy before a run of latest parses: with no observations, BuoyData nil
\* or empty, or holding one record of a standard report
InitLatest ==
    /\ BuoyData \in {NilSlice, Slice(<<>>), Slice(<<StandardItem(StandardLineAt(3, 1))>>)}
    /\ call = [NoCall EXCEPT !.empty = len(BuoyData) = 0]
    /\ calls = 0
    /\ found = NoFind
    /\ ForecastIdle

NextLatest ==
    /\ calls < MaxCalls
    /\ \E lines \in LatestReports : ParseRawLatestBuoyData(lines)
    /\ UNCHANGED forecastVars

SpecLatest == InitLatest /\ [][NextLatest]_vars

(***************************************************************************)
(* Properties of NewSurfForecast.                                          *)
(***************************************************************************)
\* the (1-based) indices of the forecast items the loop has assigned
Filled == IF pc = "start" THEN {} ELSE 1..idx

ItemAt(k) == surfForecast.ForecastData.elems[k]

WaveAt(k) == waveForecast.ForecastData.elems[k]

WindAt(k) == windForecast.ForecastData.elems[k]

MaxOf(swell) == BreakingWaveHeights(swell)[2]

\* the three components of wave record k in declared order
Declared(k) == <<SwellOne(WaveAt(k)), SwellTwo(WaveAt(k)), SwellThree(WaveAt(k))>>

\* the three roles of item k: primary, secondary, tertiary
Roles(k) ==
    <<ItemAt(k).PrimarySwellComponent, ItemAt(k).SecondarySwellComponent,
      ItemAt(k).TertiarySwellComponent>>

\* the role (1 = primary) in which item k holds the component, 0 if in none
RoleOf(k, swell) ==
    IF \E r \in 1..3 : Roles(k)[r] = swell
    THEN CHOOSE r \in 1..3 : Roles(k)[r] = swell
    ELSE 0

\* C1, as claimed: at every time step, of two components with exactly equal
\* maximum breaking heights the earlier-declared one gets the higher-ranked
\* role.
C1_TiesKeepInputOrder ==
    \A k \in Filled : \A a \in 1..3, b \in 1..3 :
        (a < b /\ MaxOf(Declared(k)[a]) = MaxOf(Declared(k)[b]))
            => RoleOf(k, Declared(k)[a]) < RoleOf(k, Declared(k)[b])

\* C1, amended: at every time step, of two components with exactly equal
\* maximum breaking heights the LATER-declared one gets the higher-ranked
\* role (the comparisons are strict and their else branches prefer the later
\* component).
C1_TiesReverseInputOrder ==
    \A k \in Filled : \A a \in 1..3, b \in 1..3 :
        (a < b /\ MaxOf(Declared(k)[a]) = MaxOf(Declared(k)[b]))
            => RoleOf(k, Declared(k)[a]) > RoleOf(k, Declared(k)[b])

\* a returned forecast with an item whose three maxima are equal and
\* positive, ranked wind swell, secondary swell, primary swell
C1_Witness ==
    /\ ret = "forecast"
    /\ \E k \in Filled :
        /\ MaxOf(Declared(k)[1]) = MaxOf(Declared(k)[2])
        /\ MaxOf(Declared(k)[2]) = MaxOf(Declared(k)[3])
        /\ MaxOf(Declared(k)[1]) > 0
        /\ Roles(k) = <<Declared(k)[3], Declared(k)[2], Declared(k)[1]>>

\* C2: at every time step the three roles of the item hold the three
\* components built from the wave record, each in exactly one role, and the
\* maxima do not increase from primary to secondary to tertiary.
C2_RolesArePermutationInOrder ==
    \A k \in Filled :
        /\ \A c \in 1..3 : Cardinality({r \in 1..3 : Roles(k)[r] = Declared(k)[c]}) = 1
        /\ MaxOf(Roles(k)[1]) >= MaxOf(Roles(k)[2])
        /\ MaxOf(Roles(k)[2]) >= MaxOf(Roles(k)[3])

\* a returned forecast with an item of three different maxima whose ranking
\* reverses the declared order
C2_Witness ==
    /\ ret = "forecast"
    /\ \E k \in Filled :
        /\ MaxOf(Declared(k)[1]) < MaxOf(Declared(k)[2])
        /\ MaxOf(Declared(k)[2]) < MaxOf(Declared(k)[3])
        /\ Roles(k) = <<Declared(k)[3], Declared(k)[2], Declared(k)[1]>>

\* wind fields of item k taken from wind record k
UsesWindRecord(k) ==
    /\ ItemAt(k).WindSpeed = WindAt(k).WindSpeed
    /\ ItemAt(k).WindGustSpeed = WindAt(k).WindGustSpeed
    /\ ItemAt(k).WindDirection = WindAt(k).WindDirection

\* wind fields of item k taken from wave record k, the gust unknown
UsesSurfaceWind(k) ==
    /\ ItemAt(k).WindSpeed = WaveAt(k).SurfaceWindSpeed
    /\ ItemAt(k).WindGustSpeed = -1
    /\ ItemAt(k).WindDirection = WaveAt(k).SurfaceWindDirection

\* C3, as claimed: with a wind series that is not empty but shorter than the
\* wave series the call completes with one item per wave record, an item with
\* a wind record using it and an item past the end of the wind series falling
\* back to the surface wind.
C3_ShortWindFallsBackPerIndex ==
    (/\ pc # "start"
     /\ 0 < len(windForecast.ForecastData)
     /\ len(windForecast.ForecastData) < len(waveForecast.ForecastData))
    => /\ pc # "panic"
       /\ \A k \in Filled :
            IF k <= len(windForecast.ForecastData)
            THEN UsesWindRecord(k) ELSE UsesSurfaceWind(k)
       /\ pc = "returned" =>
            /\ ret = "forecast"
            /\ idx = len(waveForecast.ForecastData)

\* C4: with no wind record every item has gust -1 and the wave record's
\* surface wind speed and direction; with a wind record for every wave index
\* every item has the speed, gust and direction of its wind record.
C4_WindFallbackOrWindRecord ==
    \A k \in Filled :
        /\ len(windForecast.ForecastData) = 0 => UsesSurfaceWind(k)
        /\ len(windForecast.ForecastData) >= len(waveForecast.ForecastData)
            => UsesWindRecord(k)

\* a returned forecast of two items or more built without any wind record
C4_Witness ==
    /\ ret = "forecast"
    /\ len(windForecast.ForecastData) = 0
    /\ idx >= 2
    /\ \A k \in Filled : ItemAt(k).WindGustSpeed = -1 /\ ItemAt(k).WindSpeed > 0

\* C5, as claimed: the call returns nil whenever the wave series is nil or
\* empty, whatever the wind data, and for any wave series that is not empty
\* it returns a forecast with one item per wave record in the same order.
C5_NilOrOneItemPerWaveRecord ==
    pc # "start" =>
        IF len(waveForecast.ForecastData) = 0
        THEN pc = "returned" /\ ret = "nil"
        ELSE /\ pc # "panic"
             /\ pc = "returned" =>
                /\ ret = "forecast"
                /\ len(surfForecast.ForecastData) = len(waveForecast.ForecastData)
                /\ \A k \in 1..len(waveForecast.ForecastData) :
                    ItemAt(k).Date = WaveAt(k).Date


(***************************************************************************)
(* Properties of FindConditionsForDateAndTime.                             *)
(***************************************************************************)
\* the (1-based) positions of the series whose item and duration were returned
Matches ==
    {k \in 1..len(BuoyData) :
        /\ found.item = BuoyData.elems[k]
        /\ found.duration = found.date - BuoyData.elems[k].Date}

\* C6: on a series that is not empty the call returns an item of the series
\* than which no item is strictly closer in time to the query, with the
\* duration between the query and that item.
C6_ReturnsNearestItem ==
    (found.called /\ len(BuoyData) > 0) =>
        \E k \in Matches :
            \A j \in 1..len(BuoyData) :
                Abs(found.date - BuoyData.elems[j].Date)
                    >= Abs(found.date - BuoyData.elems[k].Date)

\* a call that returned the last of three items, the nearest one, which lies
\* after the query while the others lie before it
C6_Witness ==
    /\ found.called
    /\ len(BuoyData) = 3
    /\ Matches = {3}
    /\ BuoyData.elems[3].Date > found.date
    /\ BuoyData.elems[1].Date < found.date
    /\ BuoyData.elems[2].Date < BuoyData.elems[1].Date

\* C7, as claimed: the duration is negative when the matched observation is
\* earlier than the query and positive when it is later.
C7_NegativeWhenMatchInPast ==
    (found.called /\ len(BuoyData) > 0) =>
        /\ found.item.Date < found.date => found.duration < 0
        /\ found.item.Date > found.date => found.duration > 0

\* C7, amended: the duration is the query time minus the time of the match,
\* positive when the matched observation is earlier than the query and
\* negative when it is later.
C7_PositiveWhenMatchInPast ==
    (found.called /\ len(BuoyData) > 0) =>
        /\ found.duration = found.date - found.item.Date
        /\ found.item.Date < found.date => found.duration > 0
        /\ found.item.Date > found.date => found.duration < 0

\* a call whose match lies two nanoseconds or more before the query
C7_Witness ==
    /\ found.called
    /\ len(BuoyData) > 1
    /\ found.item.Date + 2 <= found.date
    /\ found.duration >= 2

\* C8, as claimed: the call returns duration -1 with a zero item when the
\* series is nil or empty, and on a series that is not empty the duration
\* returned is never -1.
C8_SentinelOnlyWhenEmpty ==
    found.called =>
        IF len(BuoyData) = 0
        THEN found.duration = -1 /\ found.item = ZeroBuoyItem
        ELSE found.duration # -1

(***************************************************************************)
(* Properties of the parse operations.                                     *)
(***************************************************************************)
ItemFields == DOMAIN ZeroBuoyItem

\* the fields a report of each shape carries: those its parser assigns
\* (buoy.go:128-171, 215-229, 268-278)
LatestCarried ==
    {"Date", "SignificantWaveHeight", "DominantWavePeriod", "Pressure",
     "SwellWaveHeight", "SwellWavePeriod", "WindSwellWavePeriod"}

StandardCarried ==
    {"Date", "WindSpeed", "SignificantWaveHeight", "DominantWavePeriod",
     "AveragePeriod", "Pressure", "Visibility"}

DetailedCarried ==
    {"Date", "SignificantWaveHeight", "SwellWaveHeight", "SwellWavePeriod",
     "WindSwellWavePeriod", "Steepness", "AveragePeriod"}

Carried(op) ==
    IF op = "latest" THEN LatestCarried
    ELSE IF op = "standard" THEN StandardCarried
    ELSE IF op = "detailed" THEN DetailedCarried
    ELSE ItemFields

\* C9, as claimed: when ParseRawLatestBuoyData merges its report into a slot
\* 0 that exists already, every field the latest report does not carry keeps
\* the value it had before the call.
C9_LatestMergeKeepsOtherFields ==
    [][(call'.op = "latest" /\ call'.result = "ok" /\ len(BuoyData) > 0)
        => \A f \in ItemFields \ LatestCarried :
            BuoyData'.elems[1][f] = BuoyData.elems[1][f]]_vars

\* C10, as claimed: a report of one shape arriving at a slot that exists
\* already leaves every field its shape does not carry, the fields another
\* shape contributed among them, as it was.
C10_OtherShapesFieldsKept ==
    [][(call'.op \in {"latest", "standard", "detailed"} /\ call'.result = "ok")
        => \A k \in 1..len(BuoyData) : \A f \in ItemFields \ Carried(call'.op) :
            BuoyData'.elems[k][f] = BuoyData.elems[k][f]]_vars


(***************************************************************************)
(* Properties of repeated and limited parses.                              *)
(***************************************************************************)
\* a parse step that follows a latest parse which returned nil on a buoy with
\* no observations, and parses the same text again
SameLatestAgain ==
    /\ call.op = "latest" /\ call.result = "ok" /\ call.empty
    /\ calls' = calls + 1
    /\ call'.op = "latest" /\ call'.result = "ok"
    /\ call'.text = call.text

\* C11: parsing the same latest report a second time, after a first parse
\* into a buoy with no observations, leaves BuoyData as the first parse left
\* it: one item, every field equal.
C11_LatestMergeIdempotent ==
    [][SameLatestAgain => (BuoyData' = BuoyData /\ len(BuoyData') = 1)]_vars

\* the state after the second of two parses of the complete latest report,
\* the first made on a buoy with no observations
C11_Witness ==
    /\ call.op = "latest" /\ call.result = "ok" /\ ~call.empty
    /\ call.previous.op = "latest" /\ call.previous.result = "ok"
    /\ call.previous.empty
    /\ call.previous.text = call.text
    /\ len(BuoyData) = 1
    /\ BuoyData.elems[1].SwellWavePeriod = 1
    /\ BuoyData.elems[1].WindSwellWavePeriod = 2

\* C12, as claimed: a standard or detailed parse whose dataCountLimit is zero
\* or negative applies no limit, it places every data line the raw report
\* holds in BuoyData.
C12_NoLimitParsesEveryRecord ==
    (call.op \in {"standard", "detailed"} /\ call.result = "ok" /\ call.limit <= 0)
        => call.parsed = call.available

\* C13, as claimed: a standard or detailed parse on a buoy whose BuoyData is
\* nil or empty completes without a runtime failure, leaves as many items in
\* BuoyData as its loop parsed, and leaves no zero-valued item among them.
C13_EmptyBuoyParseFillsSeries ==
    (call.op \in {"standard", "detailed"} /\ call.empty)
        => /\ call.result = "ok"
           /\ len(BuoyData) = call.parsed
           /\ \A k \in 1..len(BuoyData) : BuoyData.elems[k] # ZeroBuoyItem

=============================================================================
